---- MODULE Spec2Model ----
(***************************************************************************)
(* ocp_vscode/comms.py: port resolution, outbound sends and the inbound    *)
(* listener of the OCP CAD viewer client, as a state machine.              *)
(*                                                                         *)
(* The main thread calls get_port, set_port and _send one after the other; *)
(* a call that runs port discovery probes one port per step, so that the   *)
(* viewers may start and stop between two probes.                          *)
(***************************************************************************)
EXTENDS Integers, Sequences, FiniteSets, TLC

(* ------------------------------ bounds -------------------------------- *)

\* number of viewer ports that may appear in the state file
MaxPorts == 2

(* ------------------------- Python values ------------------------------ *)

None == [t |-> "None", n |-> 0]
PyInt(n) == [t |-> "int", n |-> n]
\* the decimal string of n, as a JSON object key of the state file
PyStr(n) == [t |-> "str", n |-> n]
\* int(x) of an int or of a decimal string
int(x) == PyInt(x.n)

\* CMD_PORT = 3939
DefaultPort == 3939

Ports == DefaultPort .. (DefaultPort + MaxPorts - 1)

(* ----------------------------- paths ---------------------------------- *)

W == <<"w">>
WP == <<"w", "p">>
WPQ == <<"w", "p", "q">>
X == <<"x">>

\* Path.cwd() of the calling process
Cwd == WP

\* the "roots" lists a state-file entry may hold (none at all reads as [])
RootLists == {<<>>, <<WPQ, W>>, <<X, WP>>}

\* PurePath.is_relative_to: root is path or one of its ancestors
is_relative_to(path, root) ==
    /\ Len(root) <= Len(path)
    /\ SubSeq(path, 1, Len(root)) = root

\* for root in roots: if current_path.is_relative_to(Path(root)): ... break
RootsMatch(roots) == \E i \in 1..Len(roots) : is_relative_to(Cwd, roots[i])

(* --------------------------- state file ------------------------------- *)

\* an entry of the state file: key str(port), value {"roots": .., "connection_file": ..}
Entry(p, roots, cf) == [port |-> p, roots |-> roots, cf |-> cf]

StorePorts(s) == {s[i].port : i \in 1..Len(s)}

\* get_state().items(): the entries as read from the file, in file order
get_state(s) == s

\* update_state(port, None, None): the entry of the port is removed
DeleteEntry(s, p) == SelectSeq(s, LAMBDA e : e.port # p)

\* update_state(port, "connection_file", cf): set on the entry, which is
\* created when the file has none for the port
SetConnection(s, p) ==
    IF p \in StorePorts(s)
    THEN [i \in 1..Len(s) |-> IF s[i].port = p THEN [s[i] EXCEPT !.cf = TRUE] ELSE s[i]]
    ELSE Append(s, Entry(p, <<>>, TRUE))

\* port_check: a TCP connect to 127.0.0.1:port succeeds
port_check(p, live) == p \in live

(* --------------------------- message codec ---------------------------- *)

\* class MessageType(enum.IntEnum)
DATA == 1
COMMAND == 2
UPDATES == 3
LISTEN == 4
BACKEND == 5
BACKEND_RESPONSE == 6
CONFIG == 7

MessageType == {DATA, COMMAND, UPDATES, LISTEN, BACKEND, BACKEND_RESPONSE, CONFIG}

\* what a payload may hold: "json" is what orjson encodes by itself, the
\* others reach the default hook; "object" is of no type the hook knows
Objects == {"json", "shape", "location", "enum", "object"}

\* the payloads the caller sends: sequences of objects
Payloads == {<<>>, <<"json">>, <<"shape", "location">>, <<"enum", "object">>}

\* default(obj): the encoding of the object, or TypeError
default(obj) ==
    CASE obj = "shape" -> [ok |-> TRUE, v |-> "base64"]
      [] obj = "location" -> [ok |-> TRUE, v |-> "tq"]
      [] obj = "enum" -> [ok |-> TRUE, v |-> "value"]
      [] OTHER -> [ok |-> FALSE, v |-> "TypeError"]

Encode(obj) == IF obj = "json" THEN [ok |-> TRUE, v |-> "json"] ELSE default(obj)

\* orjson.dumps(data, default=default): fails when the hook fails on any object
dumps(data) ==
    IF \A i \in 1..Len(data) : Encode(data[i]).ok
    THEN [ok |-> TRUE, v |-> [i \in 1..Len(data) |-> Encode(data[i]).v]]
    ELSE [ok |-> FALSE, v |-> <<>>]

\* the tag put before the JSON bytes; no branch of _send tags UPDATES
Prefix(message_type) ==
    CASE message_type = COMMAND -> "C:"
      [] message_type = DATA -> "D:"
      [] message_type = LISTEN -> "L:"
      [] message_type = BACKEND -> "B:"
      [] message_type = BACKEND_RESPONSE -> "R:"
      [] message_type = CONFIG -> "S:"
      [] OTHER -> ""

(* ------------------------- inbound JSON text -------------------------- *)

\* a text received from the viewer: well formed JSON (wf) denoting doc, or not
Text(wf, doc) == [wf |-> wf, doc |-> doc]

PyDict(d) == [t |-> "dict", d |-> d]
PyList == [t |-> "list", n |-> 0]

\* json.loads: the Python value of the document, or JSONDecodeError
json_loads(text) ==
    IF text.wf THEN [ok |-> TRUE, v |-> text.doc] ELSE [ok |-> FALSE, v |-> None]

\* {"ok": true}
OkReply == PyDict([k \in {"ok"} |-> PyInt(1)])

\* what the viewer may answer to a command
ReplyTexts == {Text(TRUE, OkReply), Text(TRUE, None), Text(FALSE, None)}

(* ----------------------------- _send body ----------------------------- *)

\* what one call did, as its caller and the network see it
NoOut ==
    [ret |-> None, raised |-> "none", cands |-> <<>>, to |-> None, frame |-> <<>>,
     opened |-> FALSE, written |-> FALSE, recvs |-> 0, reply |-> Text(FALSE, None),
     closes |-> 0, closeFailed |-> FALSE]

\* what the network does to one send: connect, ws.send, ws.recv, ws.close
Nets ==
    [conn : BOOLEAN, send : BOOLEAN, recv : BOOLEAN, text : ReplyTexts, close : BOOLEAN]

\* a faulty handler, which lets the exception go on to the caller
ExceptHandlerReraise(o, ex) == [o EXCEPT !.ret = None, !.raised = ex]

\* except Exception as ex: print(...); return None
ExceptHandler(o, ex) == [o EXCEPT !.ret = None, !.raised = "none"]

\* a faulty test, which awaits a reply to data frames too
ExpectsReplyAlways(message_type) == message_type \in {COMMAND, DATA}

\* if message_type == MessageType.COMMAND
ExpectsReply(message_type) == message_type = COMMAND

\* result = None; try: result = json.loads(ws.recv()) except: print(ex)
CommandResult(net) ==
    IF net.recv /\ json_loads(net.text).ok THEN json_loads(net.text).v ELSE None

\* the try block of _send, for a known port p
SendBody(data, message_type, p, net) ==
    LET j == dumps(data)
        o0 == [NoOut EXCEPT !.to = p]
        o1 == [o0 EXCEPT !.frame = <<Prefix(message_type)>> \o j.v]
        o2 == [o1 EXCEPT !.opened = TRUE]
        o3 == [o2 EXCEPT !.written = TRUE]
        o4 == IF ExpectsReply(message_type)
              THEN [o3 EXCEPT !.recvs = 1,
                              !.reply = IF net.recv THEN net.text ELSE Text(FALSE, None),
                              !.ret = CommandResult(net)]
              ELSE o3
    IN  IF ~j.ok THEN ExceptHandler(o0, "TypeError")
        ELSE IF ~net.conn THEN ExceptHandler(o1, "ConnectionError")
        ELSE IF ~net.send THEN ExceptHandler(o2, "ConnectionClosed")
        ELSE [o4 EXCEPT !.closes = 1, !.closeFailed = ~net.close]

(* ------------------------------ state --------------------------------- *)

VARIABLES
    CMD_PORT,   \* module global: the cached port
    INIT_DONE,  \* module global: the cache holds a resolved or set port
    OCP_PORT,   \* int(os.environ.get("OCP_PORT", "0"))
    store,      \* the state file: a sequence of entries, in file order
    alive,      \* the ports a viewer listens on right now
    pc,         \* where the main thread is
    call,       \* the call the main thread is in
    states,     \* find_port: states = get_state().items()
    idx,        \* find_port: position of the running loop in states
    port,       \* find_port: port
    ports,      \* find_port: ports
    out,        \* what the call did and returned
    probes,     \* port_check calls made by the call
    dead,       \* ports a port_check of the call found unreachable
    changed,    \* a viewer started or stopped while the call was running
    store0      \* the state file when the call began

mainVars ==
    <<CMD_PORT, INIT_DONE, OCP_PORT, store, alive, pc, call, states, idx, port, ports,
      out, probes, dead, changed, store0>>

VARIABLES
    lpc,          \* where each _listen is
    last_config,  \* _listen: last_config
    lconn,        \* the listen connection: its port, the frames sent on it
    ev,           \* what the last pass of the loop received and did
    prevStatus,   \* the "text" of the last status message dispatched in the call
    earlier       \* the snapshot the thread's previous call of _listen ended with

lvars == <<lpc, last_config, lconn, ev, prevStatus, earlier>>

NoCall ==
    [op |-> "none", data |-> <<>>, kind |-> 0, port |-> None, init |-> FALSE,
     cmd |-> None]

\* the values of OCP_PORT: unset (0), not positive, a port
EnvValues == {0, DefaultPort + 1}

Entries == {Entry(p, r, FALSE) : p \in Ports, r \in RootLists}

\* the state files the process may find: at most one entry per port, any order
InitStores ==
    {s \in UNION {[1..n -> Entries] : n \in 0..MaxPorts} :
        \A i, j \in 1..Len(s) : i # j => s[i].port # s[j].port}

MainInit ==
    /\ CMD_PORT = PyInt(DefaultPort)
    /\ INIT_DONE = FALSE
    /\ OCP_PORT \in EnvValues
    /\ store \in InitStores
    /\ alive \in SUBSET Ports
    /\ pc = "idle"
    /\ call = NoCall
    /\ states = <<>>
    /\ idx = 0
    /\ port = None
    /\ ports = <<>>
    /\ out = NoOut
    /\ probes = 0
    /\ dead = {}
    /\ changed = FALSE
    /\ store0 = <<>>

(* --------------------------- port resolver ---------------------------- *)

\* a faulty test, which forgets the INIT_DONE flag
NeedsDiscoveryAlways(portArg, init) == portArg = None

\* a faulty test, which never runs the discovery
NeedsDiscoveryNever(portArg, init) == FALSE

\* a faulty test, which forgets the port argument
NeedsDiscoveryUnlessInit(portArg, init) == ~init

\* if not INIT_DONE (get_port), if port is None: if not INIT_DONE (_send)
NeedsDiscovery(portArg, init) == portArg = None /\ ~init

\* roots = state.get("roots", []); for root in roots: ... port = int(p); break
Pass1Port(prev, e) == IF RootsMatch(e.roots) THEN int(PyStr(e.port)) ELSE prev

\* a faulty choice, which takes the first of several alive ports
Pass2ResultFirst(ps) ==
    IF Len(ps) >= 1 THEN [kind |-> "port", port |-> ps[1]]
    ELSE [kind |-> "RuntimeError: No port found", port |-> None]

\* if len(ports) == 1: port = ports[0]; elif len(ports) > 1: raise ...; else: raise ...
Pass2Result(ps) ==
    IF Len(ps) = 1 THEN [kind |-> "port", port |-> ps[1]]
    ELSE IF Len(ps) > 1 THEN [kind |-> "RuntimeError: Multiple ports found", port |-> None]
    ELSE [kind |-> "RuntimeError: No port found", port |-> None]

\* a faulty start, which does not look at OCP_PORT
FindStartNoOverride ==
    /\ states' = get_state(store)
    /\ idx' = 1
    /\ port' = None
    /\ pc' = "pass1"
    /\ UNCHANGED <<CMD_PORT, INIT_DONE>>

\* find_and_set_port up to the first probe: the override, or the start of find_port
FindStart ==
    IF OCP_PORT > 0
    THEN /\ CMD_PORT' = PyInt(OCP_PORT)
         /\ INIT_DONE' = TRUE
         /\ pc' = "setconn"
         /\ UNCHANGED <<states, idx, port>>
    ELSE /\ states' = get_state(store)
         /\ idx' = 1
         /\ port' = None
         /\ pc' = "pass1"
         /\ UNCHANGED <<CMD_PORT, INIT_DONE>>

\* one round of: for p, state in states
Pass1Probe ==
    /\ pc = "pass1"
    /\ idx <= Len(states)
    /\ LET e == states[idx]
           p == PyStr(e.port)
       IN  IF ~port_check(int(p).n, alive)
           THEN /\ store' = DeleteEntry(store, int(p).n)
                /\ dead' = dead \cup {int(p).n}
                /\ port' = port
           ELSE /\ port' = Pass1Port(port, e)
                /\ UNCHANGED <<store, dead>>
    /\ idx' = idx + 1
    /\ probes' = probes + 1
    /\ UNCHANGED <<CMD_PORT, INIT_DONE, OCP_PORT, alive, pc, call, states, ports, out,
                   changed, store0>>
    /\ UNCHANGED lvars

\* the loop is over: if port is None, the second pass; else return port, set_port(port)
Pass1End ==
    /\ pc = "pass1"
    /\ idx > Len(states)
    /\ IF port = None
       THEN /\ pc' = "pass2"
            /\ idx' = 1
            /\ ports' = <<>>
            /\ UNCHANGED <<CMD_PORT, INIT_DONE>>
       ELSE /\ CMD_PORT' = port
            /\ INIT_DONE' = TRUE
            /\ pc' = "setconn"
            /\ UNCHANGED <<idx, ports>>
    /\ UNCHANGED <<OCP_PORT, store, alive, call, states, port, out, probes, dead, changed,
                   store0>>
    /\ UNCHANGED lvars

\* one round of: ports = [port for port, _ in states if port_check(int(port))]
Pass2Probe ==
    /\ pc = "pass2"
    /\ idx <= Len(states)
    /\ LET p == PyStr(states[idx].port)
       IN  IF port_check(int(p).n, alive)
           THEN ports' = Append(ports, p) /\ dead' = dead
           ELSE ports' = ports /\ dead' = dead \cup {int(p).n}
    /\ idx' = idx + 1
    /\ probes' = probes + 1
    /\ UNCHANGED <<CMD_PORT, INIT_DONE, OCP_PORT, store, alive, pc, call, states, port,
                   out, changed, store0>>
    /\ UNCHANGED lvars

\* the list is built: one port is returned and set, none or several raise
Pass2End ==
    /\ pc = "pass2"
    /\ idx > Len(states)
    /\ LET r == Pass2Result(ports)
       IN  IF r.kind = "port"
           THEN /\ port' = r.port
                /\ CMD_PORT' = r.port
                /\ INIT_DONE' = TRUE
                /\ pc' = "setconn"
                /\ out' = out
           ELSE /\ out' = [NoOut EXCEPT !.raised = r.kind, !.cands = ports]
                /\ pc' = "done"
                /\ UNCHANGED <<port, CMD_PORT, INIT_DONE>>
    /\ UNCHANGED <<OCP_PORT, store, alive, call, states, idx, ports, probes, dead, changed,
                   store0>>
    /\ UNCHANGED lvars

\* what set_connection_file finds: no Jupyter kernel, a kernel whose iopub
\* port does not answer, a kernel that answers
Kernels == {"none", "not responding", "running"}

\* set_connection_file(), then the rest of the caller: get_port returns
\* CMD_PORT, _send goes on with port = CMD_PORT
SetConnectionFile ==
    /\ pc = "setconn"
    /\ \E k \in Kernels :
          /\ store' = IF k = "running" THEN SetConnection(store, CMD_PORT.n) ELSE store
          /\ probes' = IF k = "none" THEN probes ELSE probes + 1
    /\ IF call.op = "get_port"
       THEN /\ out' = [NoOut EXCEPT !.ret = CMD_PORT]
            /\ pc' = "done"
       ELSE /\ out' = out
            /\ pc' = "body"
    /\ UNCHANGED <<CMD_PORT, INIT_DONE, OCP_PORT, alive, call, states, idx, port, ports,
                   dead, changed, store0>>
    /\ UNCHANGED lvars

(* ------------------------------ the calls ------------------------------ *)

TheCall(op, data, kind, portArg) ==
    [op |-> op, data |-> data, kind |-> kind, port |-> portArg, init |-> INIT_DONE,
     cmd |-> CMD_PORT]

\* get_port()
get_port ==
    /\ pc = "idle"
    /\ call' = TheCall("get_port", <<>>, 0, None)
    /\ store0' = store
    /\ IF NeedsDiscovery(None, INIT_DONE)
       THEN /\ FindStart
            /\ out' = out
       ELSE /\ out' = [NoOut EXCEPT !.ret = CMD_PORT]
            /\ pc' = "done"
            /\ UNCHANGED <<CMD_PORT, INIT_DONE, states, idx, port>>
    /\ UNCHANGED <<OCP_PORT, store, alive, ports, probes, dead, changed>>
    /\ UNCHANGED lvars

\* set_port(port)
set_port(p) ==
    /\ pc = "idle"
    /\ call' = TheCall("set_port", <<>>, 0, p)
    /\ store0' = store
    /\ CMD_PORT' = p
    /\ INIT_DONE' = TRUE
    /\ pc' = "done"
    /\ UNCHANGED <<OCP_PORT, store, alive, states, idx, port, ports, out, probes, dead,
                   changed>>
    /\ UNCHANGED lvars

\* _send(data, message_type, port) up to the try block
_send(data, message_type, portArg) ==
    /\ pc = "idle"
    /\ call' = TheCall("_send", data, message_type, portArg)
    /\ store0' = store
    /\ IF NeedsDiscovery(portArg, INIT_DONE)
       THEN FindStart
       ELSE /\ pc' = "body"
            /\ UNCHANGED <<CMD_PORT, INIT_DONE, states, idx, port>>
    /\ UNCHANGED <<OCP_PORT, store, alive, ports, out, probes, dead, changed>>
    /\ UNCHANGED lvars

\* the try block of _send: port is the argument, or CMD_PORT when there is none
SendTry ==
    /\ pc = "body"
    /\ \E net \in Nets :
          LET p == IF call.port = None THEN CMD_PORT ELSE call.port
          IN  /\ net.conn => port_check(p.n, alive)
              /\ out' = SendBody(call.data, call.kind, p, net)
    /\ pc' = "done"
    /\ UNCHANGED <<CMD_PORT, INIT_DONE, OCP_PORT, store, alive, call, states, idx, port,
                   ports, probes, dead, changed, store0>>
    /\ UNCHANGED lvars

\* the call is over and the main thread is free for the next one
Return ==
    /\ pc = "done"
    /\ pc' = "idle"
    /\ call' = NoCall
    /\ states' = <<>>
    /\ idx' = 0
    /\ port' = None
    /\ ports' = <<>>
    /\ out' = NoOut
    /\ probes' = 0
    /\ dead' = {}
    /\ changed' = FALSE
    /\ store0' = <<>>
    /\ UNCHANGED <<CMD_PORT, INIT_DONE, OCP_PORT, store, alive>>
    /\ UNCHANGED lvars

(* ---------------------------- environment ------------------------------ *)

\* a viewer starts or stops listening on port p
Toggle(p) ==
    /\ alive' = IF p \in alive THEN alive \ {p} ELSE alive \cup {p}
    /\ changed' = (pc # "idle")
    /\ UNCHANGED <<CMD_PORT, INIT_DONE, OCP_PORT, store, pc, call, states, idx, port,
                   ports, out, probes, dead, store0>>
    /\ UNCHANGED lvars

(* ------------------------------ listener ------------------------------- *)

\* the threads that may run _listen
Listeners == {"l1", "l2"}

\* the keys and values of a status snapshot
Keys == {"a", "b"}
Vals == {1, 2}

\* the snapshots: mappings from some keys to values
Snapshots == UNION {[K -> Vals] : K \in SUBSET Keys}

Absent == [t |-> "absent", n |-> 0]
Str(s) == [t |-> "text", s |-> s]

\* {"x": 1}
Model1 == PyDict([k \in {"x"} |-> 1])

\* a JSON object by its "model", "command" and "text" members (Absent: it has
\* none); other members, as in {"foo": "bar"}, are read by nobody
Message(model, command, text) == [model |-> model, command |-> command, text |-> text]

Messages ==
    {Message(m, c, x) :
        m \in {Absent, Model1},
        c \in {Absent, Str("status"), Str("other")},
        x \in {Absent, PyList} \cup {PyDict(sn) : sn \in Snapshots}}

\* what websocket.recv() may give: a text, None, or an exception
Inbound ==
    {[kind |-> "text", text |-> Text(TRUE, d)] : d \in {PyDict(m) : m \in Messages}}
        \cup {[kind |-> "text", text |-> Text(TRUE, d)] : d \in {PyList, None}}
        \cup {[kind |-> k, text |-> Text(FALSE, None)] : k \in {"text", "None", "error"}}

\* "model" in message.keys()
HasModel(m) == m.model # Absent

\* a faulty test, which takes any "command" for a status
IsStatusAnyCommand(m) == m.command # Absent

\* message.get("command") == "status"
IsStatus(m) == m.command = Str("status")

\* for k, v in changes.items(): if k in last_config and last_config[k] == v:
\* continue; new_changes[k] = v
RECURSIVE NewChanges(_, _, _)
NewChanges(last, changes, todo) ==
    IF todo = {} THEN <<>>
    ELSE LET k == CHOOSE x \in todo : TRUE
             rest == NewChanges(last, changes, todo \ {k})
         IN  IF k \in DOMAIN last /\ last[k] = changes[k]
             THEN rest
             ELSE [x \in DOMAIN rest \cup {k} |-> IF x = k THEN changes[k] ELSE rest[x]]

\* a faulty assignment, which stores the delta
NextConfigDelta(changes, new_changes) == new_changes

\* last_config = changes
NextConfig(changes, new_changes) == changes

\* one pass of the loop body after json.loads: what the callback was called
\* with, the snapshot afterwards, and the exception that ends the loop, if
\* any. r1, r2: the callback raises on the DATA, on the UPDATES call.
Dispatch(last, message, r1, r2) ==
    IF message.t # "dict"
    THEN [calls |-> <<>>, last |-> last, raised |-> "AttributeError"]
    ELSE
    LET m == message.d
        c1 == IF HasModel(m) THEN <<[arg |-> m.model, kind |-> DATA]>> ELSE <<>>
    IN  IF HasModel(m) /\ r1
        THEN [calls |-> c1, last |-> last, raised |-> "callback"]
        ELSE IF ~IsStatus(m)
        THEN [calls |-> c1, last |-> last, raised |-> "none"]
        ELSE IF m.text = Absent
        THEN [calls |-> c1, last |-> last, raised |-> "KeyError"]
        ELSE IF m.text.t # "dict"
        THEN [calls |-> c1, last |-> last, raised |-> "AttributeError"]
        ELSE LET changes == m.text.d
                 new_changes == NewChanges(last, changes, DOMAIN changes)
             IN  [calls |-> Append(c1, [arg |-> PyDict(new_changes), kind |-> UPDATES]),
                  last |-> NextConfig(changes, new_changes),
                  raised |-> IF r2 THEN "callback" ELSE "none"]

NoConn == [port |-> None, init |-> FALSE, sent |-> <<>>, raised |-> "none"]
NoEv == [kind |-> "none", text |-> Text(FALSE, None), prev |-> <<>>, before |-> <<>>,
         calls |-> <<>>, raised |-> "none"]

ListenInit ==
    /\ lpc = [t \in Listeners |-> "idle"]
    /\ last_config = [t \in Listeners |-> <<>>]
    /\ lconn = [t \in Listeners |-> NoConn]
    /\ ev = [t \in Listeners |-> NoEv]
    /\ prevStatus = [t \in Listeners |-> <<>>]
    /\ earlier = [t \in Listeners |-> <<>>]

\* a faulty start, which goes on with the snapshot of the call before
NewConfigKept(t) == earlier[t]

\* last_config = {}
NewConfig(t) == <<>>

\* a faulty registration, which sends the frame twice
RegistrationTwice == <<"L:register", "L:register">>

\* websocket.send(b"L:register"): the frames it puts on the connection
Registration == <<"L:register">>

\* a faulty handler, which goes on with the next frame
ExceptContinue(raised) == "loop"

\* except Exception as ex: print(ex); break
ExceptBreak(raised) == IF raised = "none" THEN "loop" ELSE "ended"

\* _listen(): last_config = {}; connect(f"{CMD_URL}:{CMD_PORT}", max_size=2**28)
Listen(t) ==
    /\ lpc[t] = "idle"
    /\ last_config' = [last_config EXCEPT ![t] = NewConfig(t)]
    /\ prevStatus' = [prevStatus EXCEPT ![t] = <<>>]
    /\ ev' = [ev EXCEPT ![t] = NoEv]
    /\ \E ok \in BOOLEAN :
          /\ ok => port_check(CMD_PORT.n, alive)
          /\ lconn' = [lconn EXCEPT ![t] =
                          [NoConn EXCEPT !.port = CMD_PORT, !.init = INIT_DONE,
                                         !.raised = IF ok THEN "none" ELSE "ConnectionError"]]
          /\ lpc' = [lpc EXCEPT ![t] = IF ok THEN "open" ELSE "ended"]
    /\ UNCHANGED earlier
    /\ UNCHANGED mainVars

\* websocket.send(b"L:register")
Register(t) ==
    /\ lpc[t] = "open"
    /\ \E ok \in BOOLEAN :
          IF ok
          THEN /\ lconn' = [lconn EXCEPT ![t].sent = @ \o Registration]
               /\ lpc' = [lpc EXCEPT ![t] = "loop"]
          ELSE /\ lconn' = [lconn EXCEPT ![t].raised = "ConnectionClosed"]
               /\ lpc' = [lpc EXCEPT ![t] = "ended"]
    /\ UNCHANGED <<last_config, ev, prevStatus, earlier>>
    /\ UNCHANGED mainVars

\* one pass of: while True: try: message = websocket.recv() ... except: break
Cycle(t, inb, r1, r2) ==
    /\ lpc[t] = "loop"
    /\ LET e0 == [NoEv EXCEPT !.kind = inb.kind, !.text = inb.text, !.prev = prevStatus[t],
                              !.before = last_config[t]]
           parsed == json_loads(inb.text)
           d == Dispatch(last_config[t], parsed.v, r1, r2)
       IN  IF inb.kind = "error"
           THEN /\ ev' = [ev EXCEPT ![t] = [e0 EXCEPT !.raised = "ConnectionClosed"]]
                /\ lpc' = [lpc EXCEPT ![t] = ExceptBreak("ConnectionClosed")]
                /\ UNCHANGED <<last_config, prevStatus>>
           ELSE IF inb.kind = "None"
           THEN /\ ev' = [ev EXCEPT ![t] = e0]
                /\ UNCHANGED <<lpc, last_config, prevStatus>>
           ELSE IF ~parsed.ok
           THEN /\ ev' = [ev EXCEPT ![t] = [e0 EXCEPT !.raised = "JSONDecodeError"]]
                /\ lpc' = [lpc EXCEPT ![t] = ExceptBreak("JSONDecodeError")]
                /\ UNCHANGED <<last_config, prevStatus>>
           ELSE /\ ev' = [ev EXCEPT ![t] = [e0 EXCEPT !.kind = "parsed", !.calls = d.calls,
                                                      !.raised = d.raised]]
                /\ last_config' = [last_config EXCEPT ![t] = d.last]
                /\ lpc' = [lpc EXCEPT ![t] = ExceptBreak(d.raised)]
                /\ prevStatus' =
                      [prevStatus EXCEPT ![t] =
                          IF /\ Len(d.calls) > 0
                             /\ d.calls[Len(d.calls)].kind = UPDATES
                          THEN parsed.v.d.text.d ELSE @]
    /\ UNCHANGED <<lconn, earlier>>
    /\ UNCHANGED mainVars

\* _listen has returned or raised; it may be called again
ListenReturn(t) ==
    /\ lpc[t] = "ended"
    /\ lpc' = [lpc EXCEPT ![t] = "idle"]
    /\ earlier' = [earlier EXCEPT ![t] = last_config[t]]
    /\ last_config' = [last_config EXCEPT ![t] = <<>>]
    /\ prevStatus' = [prevStatus EXCEPT ![t] = <<>>]
    /\ lconn' = [lconn EXCEPT ![t] = NoConn]
    /\ ev' = [ev EXCEPT ![t] = NoEv]
    /\ UNCHANGED mainVars

(* --------------------------- specification ----------------------------- *)

\* the port arguments of _send and set_port
PortArgs == {PyInt(p) : p \in Ports}

vars == <<mainVars, lvars>>

\* port resolution: every state file, commands sent with and without a port
Init == MainInit /\ ListenInit

Next ==
    \/ get_port
    \/ \E p \in PortArgs : set_port(p)
    \/ \E p \in {None, PyInt(DefaultPort)} : _send(<<"json">>, COMMAND, p)
    \/ Pass1Probe
    \/ Pass1End
    \/ Pass2Probe
    \/ Pass2End
    \/ SetConnectionFile
    \/ SendTry
    \/ Return
    \/ \E p \in Ports : Toggle(p)

Spec == Init /\ [][Next]_vars

\* sends: every payload and message type, a state file of at most the default port
InitSend ==
    /\ MainInit
    /\ ListenInit
    /\ OCP_PORT = 0
    /\ \A i \in 1..Len(store) : store[i].port = DefaultPort

NextSend ==
    \/ get_port
    \/ \E p \in PortArgs : set_port(p)
    \/ \E d \in Payloads, k \in MessageType, p \in PortArgs \cup {None} : _send(d, k, p)
    \/ Pass1Probe
    \/ Pass1End
    \/ Pass2Probe
    \/ Pass2End
    \/ SetConnectionFile
    \/ SendTry
    \/ Return
    \/ \E p \in Ports : Toggle(p)

SpecSend == InitSend /\ [][NextSend]_vars

\* the callback raises only where the loop calls it: with the model of an
\* object that has one, with the delta of a status message
CallbackMayRaise(inb, r1, r2) ==
    LET v == inb.text.doc
        object == inb.kind = "text" /\ inb.text.wf /\ v.t = "dict"
    IN  /\ r1 => (object /\ HasModel(v.d))
        /\ r2 => (object /\ IsStatus(v.d))

\* one call of _listen, with every inbound message, while the main thread
\* sets a port
InitListen ==
    /\ MainInit
    /\ ListenInit
    /\ OCP_PORT = 0
    /\ store = <<>>
    /\ alive = Ports

NextListen ==
    \/ Listen("l1")
    \/ Register("l1")
    \/ \E inb \in Inbound, r1, r2 \in BOOLEAN :
          CallbackMayRaise(inb, r1, r2) /\ Cycle("l1", inb, r1, r2)
    \/ set_port(PyInt(DefaultPort + 1))
    \/ Return

SpecListen == InitListen /\ [][NextListen]_vars

\* {"command": "status", "text": sn}, {"model": {"x": 1}}, a receive error
StatusText(sn) ==
    [kind |-> "text", text |-> Text(TRUE, PyDict(Message(Absent, Str("status"), PyDict(sn))))]

ModelText == [kind |-> "text", text |-> Text(TRUE, PyDict(Message(Model1, Absent, Absent)))]

ThreadInbound ==
    {StatusText([k \in {"a"} |-> v]) : v \in Vals}
        \cup {ModelText, [kind |-> "error", text |-> Text(FALSE, None)]}

\* two threads that call _listen again and again, while the main thread sets
\* a port and sends data to a given port
InitThreads ==
    /\ MainInit
    /\ ListenInit
    /\ OCP_PORT = 0
    /\ store = <<>>
    /\ alive = Ports

NextThreads ==
    \/ \E t \in Listeners : Listen(t)
    \/ \E t \in Listeners : Register(t)
    \/ \E t \in Listeners, inb \in ThreadInbound : Cycle(t, inb, FALSE, FALSE)
    \/ \E t \in Listeners : ListenReturn(t)
    \/ set_port(PyInt(DefaultPort + 1))
    \/ _send(<<"json">>, DATA, PyInt(DefaultPort))
    \/ SendTry
    \/ Return

SpecThreads == InitThreads /\ [][NextThreads]_vars

(* ------------------------ claims: port resolver ------------------------ *)

\* find_port has returned a port and set_port has cached it
AttemptOk == pc = "setconn" /\ OCP_PORT <= 0

\* find_port has raised
AttemptFailed == pc = "done" /\ out.raised \in {"RuntimeError: No port found",
                                                "RuntimeError: Multiple ports found"}

AttemptEnded == AttemptOk \/ AttemptFailed

\* the positions of the entries read at the start of the attempt whose port
\* is alive and one of whose roots is the current directory or an ancestor
MatchIdx ==
    {i \in 1..Len(states) :
        /\ states[i].port \in alive
        /\ \E k \in 1..Len(states[i].roots) :
              LET root == states[i].roots[k]
              IN  Len(root) <= Len(Cwd) /\ \A n \in 1..Len(root) : root[n] = Cwd[n]}

\* the alive ports among the entries read at the start of the attempt
AlivePorts == {states[i].port : i \in 1..Len(states)} \cap alive

\* C1 (as claimed): with no override and two or more alive entries whose roots
\* contain the current directory, the resolved port is the port of the FIRST
\* such entry in the iteration order of the state file.
C1_FirstMatchWins ==
    (AttemptOk /\ ~changed /\ Cardinality(MatchIdx) >= 2)
        => \A i \in MatchIdx : (\A j \in MatchIdx : i <= j) => port.n = states[i].port

\* C2: with no override and no alive entry whose roots contain the current
\* directory, the attempt is decided by the number of alive ports alone: one is
\* resolved and cached, none raises "no port found", several raise "multiple
\* ports" naming each of them.
C2_NoRootMatch ==
    (AttemptEnded /\ ~changed /\ MatchIdx = {}) =>
        IF Cardinality(AlivePorts) = 1
        THEN /\ pc = "setconn"
             /\ INIT_DONE
             /\ \A p \in AlivePorts : CMD_PORT.n = p /\ port.n = p
        ELSE /\ pc = "done"
             /\ ~INIT_DONE
             /\ IF AlivePorts = {}
                THEN out.raised = "RuntimeError: No port found"
                ELSE /\ out.raised = "RuntimeError: Multiple ports found"
                     /\ {out.cands[i].n : i \in 1..Len(out.cands)} = AlivePorts

\* C2 happens: the only alive port, whose entry has no matching root, is
\* resolved from a state file that also holds another entry
C2_Witness ==
    /\ AttemptOk
    /\ ~changed
    /\ MatchIdx = {}
    /\ Cardinality(AlivePorts) = 1
    /\ Len(states) >= 2

\* C3 (as claimed): when the attempt ends, no port that one of its probes
\* found unreachable has an entry left in the state file.
C3_StaleRemoved == AttemptEnded => dead \cap StorePorts(store) = {}

\* during and after a call that began with the cache resolved or set: no
\* discovery, no probe, the state file and the cached port as they were, and
\* the cached port is what get_port returns and what _send uses
C4_Cached ==
    /\ call.init => /\ pc \in {"body", "done"}
                    /\ INIT_DONE
                    /\ probes = 0
                    /\ store = store0
    /\ (call.init /\ call.op # "set_port") => CMD_PORT = call.cmd
    /\ (call.init /\ pc = "done" /\ call.port = None) =>
          /\ call.op = "get_port" => out.ret = call.cmd
          /\ call.op = "_send" => out.to = call.cmd
    /\ (call.op = "set_port") => CMD_PORT = call.port /\ INIT_DONE

\* once resolved or set, the cache stays so and changes by set_port(p) only, to p
C4_Step ==
    INIT_DONE => /\ INIT_DONE'
                 /\ CMD_PORT' # CMD_PORT => call'.op = "set_port" /\ CMD_PORT' = call'.port

\* C4: once the port is resolved or set, every later get_port and every later
\* _send without a port argument uses the cached port and runs no discovery
\* (no probe, no change of the state file), until set_port is called again;
\* after set_port(p) they use p.
C4_CachedPortReused == [](C4_Cached) /\ [][C4_Step]_vars

\* C4 happens: a command sent without a port after the port was resolved from
\* the state file goes to the resolved port
C4_Witness ==
    /\ pc = "done"
    /\ call.op = "_send"
    /\ call.port = None
    /\ call.init
    /\ call.cmd.t = "str"
    /\ out.opened
    /\ out.to = call.cmd

(* --------------------------- claims: _send ------------------------------ *)

\* _send has reached its try block and is over
SendRan == pc = "done" /\ call.op = "_send" /\ out.to # None

\* C5 (as claimed): a send whose payload holds an object of a type the
\* serializer hook does not know fails with the serialization error, which
\* reaches the caller.
C5_SerializationErrorRaised ==
    (SendRan /\ \E i \in 1..Len(call.data) : call.data[i] = "object")
        => out.raised = "TypeError"

\* C6: for every message type, when the port is known (given, or cached) and
\* the connection cannot be opened or the frame cannot be written, the send
\* returns None and raises nothing.
C6_SendFailureIsNull ==
    (SendRan /\ (call.port # None \/ call.init) /\ out.frame # <<>> /\ ~out.written)
        => out.ret = None /\ out.raised = "none"

\* C6 happens: a send to a given port nobody listens on
C6_Witness ==
    /\ SendRan
    /\ call.port # None
    /\ ~changed
    /\ call.port.n \notin alive
    /\ out.frame # <<>>
    /\ ~out.opened
    /\ out.ret = None

\* C7: in a send that connects and writes its frame, a command receives
\* exactly once and returns the reply parsed as JSON (None when no reply
\* arrives or it does not parse); every other message type receives nothing
\* and returns None.
C7_ReplyOnlyForCommand ==
    (SendRan /\ out.written) =>
        /\ out.raised = "none"
        /\ IF call.kind = COMMAND
           THEN /\ out.recvs = 1
                /\ out.ret = IF out.reply.wf THEN out.reply.doc ELSE None
           ELSE /\ out.recvs = 0
                /\ out.ret = None

\* C7 happens: a command is answered {"ok": true} and the call returns it
C7_Witness ==
    /\ SendRan
    /\ call.kind = COMMAND
    /\ out.written
    /\ out.recvs = 1
    /\ out.reply = Text(TRUE, OkReply)
    /\ out.ret = OkReply

\* C8 (as claimed): a send that opened a connection attempts to close it
\* before it returns, whether or not the frame was written, and no close
\* failure reaches the caller.
C8_CloseAlwaysAttempted ==
    (SendRan /\ out.opened) => out.closes = 1 /\ out.raised = "none"

(* -------------------------- claims: listener ---------------------------- *)

\* the last pass of the loop of t parsed a JSON object
ParsedObject(t) == ev[t].kind = "parsed" /\ ev[t].text.doc.t = "dict"

Msg(t) == ev[t].text.doc.d

\* ... whose "command" is "status"
StatusMessage(t) == ParsedObject(t) /\ Msg(t).command = Str("status")

\* ... and whose "text" is an object
StatusSnapshot(t) ==
    StatusMessage(t) /\ Msg(t).text # Absent /\ Msg(t).text.t = "dict"

\* ... which has a "model" member
ModelMessage(t) == ParsedObject(t) /\ Msg(t).model # Absent

\* the callback raised when called with the model
DataCallbackRaised(t) ==
    ModelMessage(t) /\ ev[t].raised = "callback" /\ Len(ev[t].calls) = 1

\* the keys of new that prev lacks or maps to another value, with new's values
DeltaOf(prev, new) ==
    [k \in {x \in DOMAIN new : x \notin DOMAIN prev \/ prev[x] # new[x]} |-> new[k]]

CalledWith(t, arg, kind) ==
    \E i \in 1..Len(ev[t].calls) : ev[t].calls[i] = [arg |-> arg, kind |-> kind]

\* C9: the delta handed to the callback for a status message holds exactly
\* the keys of its snapshot that the snapshot of the status message before it
\* (the empty one for the first) lacks or maps to another value, with the new
\* values; afterwards the stored snapshot is the whole new snapshot.
C9_StatusDelta ==
    \A t \in Listeners :
        (StatusSnapshot(t) /\ ~DataCallbackRaised(t)) =>
            /\ ev[t].calls[Len(ev[t].calls)] =
                  [arg |-> PyDict(DeltaOf(ev[t].prev, Msg(t).text.d)), kind |-> UPDATES]
            /\ last_config[t] = Msg(t).text.d

\* C9 happens: after {"a": 1, "b": 2} the status {"a": 1, "b": 1} is
\* reported as {"b": 1}
C9_Witness ==
    \E t \in Listeners :
        /\ StatusSnapshot(t)
        /\ ev[t].prev = [k \in {"a", "b"} |-> IF k = "a" THEN 1 ELSE 2]
        /\ Msg(t).text.d = [k \in {"a", "b"} |-> 1]
        /\ CalledWith(t, PyDict([k \in {"b"} |-> 1]), UPDATES)
        /\ last_config[t] = [k \in {"a", "b"} |-> 1]

\* C10 (as claimed): for every parsed inbound message, a "model" member gives
\* a DATA callback with the model, "command" = "status" gives an UPDATES
\* callback, and a message of neither shape gives no callback, leaves the
\* snapshot alone and lets the loop go on.
C10_DispatchEveryMessage ==
    \A t \in Listeners :
        ev[t].kind = "parsed" =>
            /\ ModelMessage(t) => CalledWith(t, Msg(t).model, DATA)
            /\ StatusMessage(t) =>
                  \E i \in 1..Len(ev[t].calls) : ev[t].calls[i].kind = UPDATES
            /\ (~ModelMessage(t) /\ ~StatusMessage(t)) =>
                  /\ ev[t].calls = <<>>
                  /\ last_config[t] = ev[t].before
                  /\ lpc[t] = "loop"

\* C10 (amended): the same for every parsed message that is a JSON object,
\* the UPDATES callback being due when "text" is an object and the DATA
\* callback of the same message, if any, did not raise.
C10_DispatchObjects ==
    \A t \in Listeners :
        ParsedObject(t) =>
            /\ ModelMessage(t) => ev[t].calls[1] = [arg |-> Msg(t).model, kind |-> DATA]
            /\ (StatusSnapshot(t) /\ ~DataCallbackRaised(t)) =>
                  CalledWith(t, PyDict(DeltaOf(ev[t].prev, Msg(t).text.d)), UPDATES)
            /\ ~ModelMessage(t) =>
                  \A i \in 1..Len(ev[t].calls) : ev[t].calls[i].kind # DATA
            /\ ~StatusMessage(t) =>
                  \A i \in 1..Len(ev[t].calls) : ev[t].calls[i].kind # UPDATES
            /\ (~ModelMessage(t) /\ ~StatusMessage(t)) =>
                  /\ ev[t].calls = <<>>
                  /\ last_config[t] = ev[t].before
                  /\ lpc[t] = "loop"

\* C10 happens: a status message that repeats the stored snapshot reaches the
\* callback as an empty delta
C10_Witness ==
    \E t \in Listeners :
        /\ StatusSnapshot(t)
        /\ ev[t].prev # <<>>
        /\ Msg(t).text.d = ev[t].prev
        /\ ev[t].calls = <<[arg |-> PyDict(<<>>), kind |-> UPDATES]>>

\* a pass of the loop of t ended in an exception
CycleFailed(t) == ev[t].raised # "none"

\* after a failed pass the call is over, and the failing pass called the
\* callback with nothing it had not yet reached
C11_Ended ==
    \A t \in Listeners :
        CycleFailed(t) =>
            /\ lpc[t] = "ended"
            /\ ev[t].raised \in {"ConnectionClosed", "JSONDecodeError"} => ev[t].calls = <<>>
            /\ ev[t].raised \in {"KeyError", "AttributeError"} =>
                  \A i \in 1..Len(ev[t].calls) : ev[t].calls[i].kind # UPDATES

\* a call that is over receives nothing, calls nothing and sends nothing,
\* until _listen is called again
C11_Step ==
    \A t \in Listeners :
        lpc[t] = "ended" =>
            \/ lpc'[t] = "ended" /\ ev'[t] = ev[t] /\ lconn'[t] = lconn[t]
                  /\ last_config'[t] = last_config[t]
            \/ lpc'[t] = "idle" /\ ev'[t] = NoEv

\* C11: after the first failure inside a pass of the loop (receive error,
\* text that is not JSON, status message without "text", raising callback) the
\* call of _listen is over: it receives no further frame and calls the
\* callback no more, until _listen is called again.
C11_NoDeliveryAfterFailure == [](C11_Ended) /\ [][C11_Step]_vars

\* C11 happens: a status message without "text" ends the call after earlier
\* status messages were delivered
C11_Witness ==
    \E t \in Listeners :
        /\ lpc[t] = "ended"
        /\ StatusMessage(t)
        /\ Msg(t).text = Absent
        /\ ev[t].raised = "KeyError"
        /\ ev[t].prev # <<>>

\* C12 (as claimed): the port a listen connection is opened to was resolved
\* or set before: the cache was initialized when _listen connected.
C12_ListenerPortResolved ==
    \A t \in Listeners : lconn[t].port # None => lconn[t].init

\* C15: on every listen connection the registration frame is sent at most
\* once; it has not been sent while the connection is only open, and it has
\* been sent, once, before any frame is received and any callback is called.
C15_RegisteredOnceFirst ==
    \A t \in Listeners :
        /\ Len(lconn[t].sent) <= 1
        /\ lconn[t].sent # <<>> => lconn[t].port # None
        /\ lpc[t] = "open" => lconn[t].sent = <<>> /\ ev[t] = NoEv
        /\ (lpc[t] = "loop" \/ ev[t].kind # "none") => lconn[t].sent = <<"L:register">>

\* C15 happens: the callback is called on a connection that carried the
\* registration frame and nothing else
C15_Witness ==
    \E t \in Listeners :
        /\ lpc[t] = "loop"
        /\ ev[t].calls # <<>>
        /\ lconn[t].sent = <<"L:register">>

\* C16 (as claimed): for one inbound frame the callback is called at most
\* once, also when the frame has both a "model" and "command" = "status".
C16_AtMostOneCallback ==
    \A t \in Listeners : Len(ev[t].calls) <= 1

(* ------------------- claims: resolution and the cache ------------------- *)

\* the call runs find_and_set_port
Resolves == call.op \in {"get_port", "_send"} /\ call.port = None /\ ~call.init

\* C13: when OCP_PORT is positive, find_and_set_port caches exactly that
\* port: it reads no entry of the state file and probes no port, alive or
\* not, and the state file is as it was when set_connection_file begins; no
\* entry is deleted in the whole call.
C13_OverrideUsedDirectly ==
    (Resolves /\ OCP_PORT > 0) =>
        /\ pc \in {"setconn", "body", "done"}
        /\ CMD_PORT = PyInt(OCP_PORT)
        /\ INIT_DONE
        /\ states = <<>>
        /\ dead = {}
        /\ pc = "setconn" => probes = 0 /\ store = store0
        /\ StorePorts(store0) \subseteq StorePorts(store)

\* C13 happens: the override names a port nobody listens on, and the state
\* file holds a stale entry, which stays
C13_Witness ==
    /\ Resolves
    /\ pc = "setconn"
    /\ OCP_PORT > 0
    /\ ~changed
    /\ OCP_PORT \notin alive
    /\ \E i \in 1..Len(store) : store[i].port \notin alive
    /\ CMD_PORT = PyInt(OCP_PORT)

\* C17 (as claimed): when find_port returns a port, the state file still
\* holds the entry of that port, whatever the viewers did between the probes.
C17_ResolvedEntryKept == AttemptOk => port.n \in StorePorts(store)

\* a failed resolution: the RuntimeError is what the call ends with, before
\* any frame is built or any connection opened, and the cache is as it was
C18_Failed ==
    AttemptFailed =>
        /\ Resolves
        /\ out.to = None
        /\ out.frame = <<>>
        /\ ~out.opened
        /\ ~INIT_DONE
        /\ CMD_PORT = call.cmd

\* while the cache is unresolved, get_port and _send without a port begin
\* with find_and_set_port
C18_Step ==
    (pc = "idle" /\ ~INIT_DONE /\ call'.op \in {"get_port", "_send"} /\ call'.port = None) =>
        /\ pc' \in {"pass1", "setconn"}
        /\ OCP_PORT <= 0 => pc' = "pass1" /\ states' = get_state(store) /\ idx' = 1

\* C18: when find_port raises (no port, several ports) the error reaches the
\* caller of _send or get_port, no connection is opened, INIT_DONE stays
\* False and CMD_PORT is unchanged, so the next _send or get_port without a
\* port runs the resolution again.
C18_FailureLeavesUnresolved == [](C18_Failed) /\ [][C18_Step]_vars

\* C18 happens: a command sent without a port fails on two alive ports, none
\* of whose roots match
C18_Witness ==
    /\ AttemptFailed
    /\ call.op = "_send"
    /\ out.raised = "RuntimeError: Multiple ports found"
    /\ Len(out.cands) = 2
    /\ ~INIT_DONE

\* C19: a _send with a port argument runs no resolution and no probe, leaves
\* the state file, CMD_PORT and INIT_DONE as they were, and its connection and
\* frame go to the port of the argument, whether the send succeeds or fails.
C19_ExplicitPortOnly ==
    (call.op = "_send" /\ call.port # None) =>
        /\ pc \in {"body", "done"}
        /\ states = <<>>
        /\ probes = 0
        /\ dead = {}
        /\ store = store0
        /\ CMD_PORT = call.cmd
        /\ INIT_DONE = call.init
        /\ pc = "done" => out.to = call.port

\* C19 happens: before any resolution, a send to a port other than the
\* default connects to it
C19_Witness ==
    /\ SendRan
    /\ call.port # None
    /\ ~call.init
    /\ call.port # call.cmd
    /\ out.opened
    /\ out.to = call.port
    /\ ~INIT_DONE

(* ---------------------- claims: listener threads ------------------------ *)

\* the snapshot is empty until the loop of the call runs, and the first
\* status message dispatched in a call is reported whole
C14_Fresh ==
    \A t \in Listeners :
        /\ lpc[t] \in {"idle", "open"} => last_config[t] = <<>>
        /\ (StatusSnapshot(t) /\ ~DataCallbackRaised(t) /\ ev[t].prev = <<>>) =>
              ev[t].calls[Len(ev[t].calls)] = [arg |-> Msg(t).text, kind |-> UPDATES]

\* the snapshot of a call changes in a pass of its own loop that dispatches
\* a status message, to the "text" of that message, and when the call is over
C14_Step ==
    \A t \in Listeners :
        last_config'[t] # last_config[t] =>
            \/ /\ lpc[t] = "loop"
               /\ (StatusSnapshot(t))'
               /\ ev'[t].before = last_config[t]
               /\ last_config'[t] = (Msg(t).text.d)'
            \/ /\ lpc[t] = "ended"
               /\ lpc'[t] = "idle"
               /\ last_config'[t] = <<>>

\* C14: the status snapshot belongs to one call of _listen: it is empty when
\* the call starts, only a status message received in that call changes it
\* (no model message, no send, no set_port, no other thread's _listen), and
\* a call started after an earlier one ended reports every key of its first
\* status message.
C14_SnapshotPerCall == [](C14_Fresh) /\ [][C14_Step]_vars

\* C14 happens: a call whose thread's earlier call ended with {"a": 1} gets
\* {"a": 1} as its first status message and reports it whole, while the
\* other thread's call holds {"a": 2}
C14_Witness ==
    \E t, u \in Listeners :
        /\ t # u
        /\ earlier[t] = [k \in {"a"} |-> 1]
        /\ StatusSnapshot(t)
        /\ ev[t].prev = <<>>
        /\ Msg(t).text.d = [k \in {"a"} |-> 1]
        /\ ev[t].calls = <<[arg |-> PyDict([k \in {"a"} |-> 1]), kind |-> UPDATES]>>
        /\ lpc[u] = "loop"
        /\ last_config[u] = [k \in {"a"} |-> 2]

====
